---- MODULE Spec2Model ----
(***************************************************************************)
(* Itsamatch: tagged-union values, single dispatch (match), multi          *)
(* dispatch (matchMany) and constructor synthesis (constructorOf), as      *)
(* implemented in src/index.ts.                                            *)
(*                                                                         *)
(* The library is a set of pure functions.  A behaviour of the model is    *)
(* one caller session: the initial state draws the caller's inputs (the    *)
(* discriminant field name, the constructor arguments and the case         *)
(* mapping), Generate / GenerateOne make the constructors, Construct builds *)
(* the tagged values one by one, Match / MatchMany dispatch on the         *)
(* values, and Mutate is a later change the caller makes to one object.    *)
(* A second specification, SpecList, runs the list example (len, same).    *)
(***************************************************************************)
EXTENDS Integers, Sequences, FiniteSets, TLC

VARIABLES
    tag,        \* the discriminant field name the caller uses in this session
    inputs,     \* the constructor calls to make: <<[variant, arg], ...>>
    cases,      \* the case mapping handed to match / matchMany (a JS object)
    vals,       \* the tagged values built so far, in order, as they were built
    pc,         \* "start" | "build" | "match" | "matchMany" | "mutated" | ...
    outcome,    \* what the dispatch call did: return or throw, and the calls made
    ctors,      \* the constructors generated for the session (a JS object)
    heap,       \* the objects and arrays of the session, by address
    valRefs,    \* the addresses of the tagged values built so far, in order
    touched,    \* the address of the object the caller changed, 0 if none
    lists       \* the two lists of the list example, as sequences of heads

vars == <<tag, inputs, cases, vals, pc, outcome, ctors, heap, valRefs, touched, lists>>

(***************************************************************************)
(* JavaScript values.  Every value is a record with a kind; an object      *)
(* carries its own properties as a function from property names.           *)
(***************************************************************************)
Undefined == [kind |-> "undefined"]
Null == [kind |-> "null"]
JsNum(n) == [kind |-> "number", num |-> n]
JsStr(s) == [kind |-> "string", str |-> s]
JsBool(b) == [kind |-> "boolean", bool |-> b]
JsArr(items) == [kind |-> "array", items |-> items]
JsObj(fields) == [kind |-> "object", fields |-> fields]
JsFn(name) == [kind |-> "function", name |-> name]

NoFields == [k \in {} |-> Undefined]

\* src/index.ts:10
WRAPPED_VALUE_KEY == "$value"

\* The properties every plain object inherits from Object.prototype and that
\* the `in` operator and a property read therefore find on a case mapping.
\* toString stands for the whole family (constructor, valueOf, ...).
ObjectPrototype == [toString |-> JsFn("Object.prototype.toString")]

\* key in obj
HasProperty(obj, key) == key \in DOMAIN obj.fields \/ key \in DOMAIN ObjectPrototype

\* obj[key]
Get(obj, key) ==
    IF key \in DOMAIN obj.fields THEN obj.fields[key]
    ELSE IF key \in DOMAIN ObjectPrototype THEN ObjectPrototype[key]
    ELSE Undefined

\* typeof v
TypeOf(v) == IF v.kind \in {"object", "array", "null"} THEN "object" ELSE v.kind

\* Array.isArray(v)
IsArray(v) == v.kind = "array"

Digits == <<"0", "1", "2", "3", "4", "5", "6", "7", "8", "9">>

RECURSIVE NatToString(_)
NatToString(n) ==
    IF n < 10 THEN Digits[n + 1] ELSE NatToString(n \div 10) \o Digits[(n % 10) + 1]

NumberToString(n) == IF n < 0 THEN "-" \o NatToString(0 - n) ELSE NatToString(n)

RECURSIVE JsToString(_)
RECURSIVE JoinItems(_, _)

\* items.join(sep): null and undefined elements give the empty string
JoinItems(items, sep) ==
    IF Len(items) = 0 THEN ""
    ELSE LET h == Head(items)
             s == IF h.kind \in {"undefined", "null"} THEN "" ELSE JsToString(h)
         IN IF Len(items) = 1 THEN s ELSE s \o sep \o JoinItems(Tail(items), sep)

\* String conversion of a template literal and of a property key
JsToString(v) ==
    CASE v.kind = "undefined" -> "undefined"
      [] v.kind = "null" -> "null"
      [] v.kind = "number" -> NumberToString(v.num)
      [] v.kind = "string" -> v.str
      [] v.kind = "boolean" -> (IF v.bool THEN "true" ELSE "false")
      [] v.kind = "array" -> JoinItems(v.items, ",")
      [] v.kind = "object" -> "[object Object]"
      [] OTHER -> "function"

\* { ...base, ...more }: a later property replaces an earlier one of that name
Spread(base, more) ==
    [k \in DOMAIN base \cup DOMAIN more |-> IF k \in DOMAIN more THEN more[k] ELSE base[k]]

Prop(key, v) == [k \in {key} |-> v]

(***************************************************************************)
(* Calls.  A handler is a caller function; its result is left              *)
(* uninterpreted as the application of that function to its arguments.     *)
(***************************************************************************)
Ret(fn, args) == [kind |-> "result", fn |-> fn.name, args |-> args]

Return(v, fn, args) ==
    [status |-> "return", value |-> v, message |-> "",
     calls |-> <<[fn |-> fn, args |-> args]>>]

Throw(msg) ==
    [status |-> "throw", value |-> Undefined, message |-> msg, calls |-> <<>>]

NoOutcome == [status |-> "none", value |-> Undefined, message |-> "", calls |-> <<>>]

\* Object.prototype.toString.call(this)
ClassString(this) ==
    CASE this.kind = "undefined" -> "[object Undefined]"
      [] this.kind = "null" -> "[object Null]"
      [] this.kind = "array" -> "[object Array]"
      [] this.kind = "function" -> "[object Function]"
      [] this.kind = "number" -> "[object Number]"
      [] this.kind = "string" -> "[object String]"
      [] this.kind = "boolean" -> "[object Boolean]"
      [] OTHER -> "[object Object]"

\* fn.call(this, ...args)
Call(fn, this, args) ==
    IF fn.kind # "function" THEN Throw("TypeError: not a function")
    ELSE IF fn = ObjectPrototype["toString"] THEN Return(JsStr(ClassString(this)), fn, args)
    ELSE Return(Ret(fn, args), fn, args)

(***************************************************************************)
(* The library.                                                            *)
(***************************************************************************)

\* (arg?) => { ... } of constructorOf(variant, tag)
constructorOf(variant, tagField, arg) ==
    IF arg = Undefined THEN JsObj(Prop(tagField, JsStr(variant)))
    ELSE IF TypeOf(arg) = "object" /\ arg # Null /\ ~IsArray(arg)
         THEN JsObj(Spread(Prop(tagField, JsStr(variant)), arg.fields))
    ELSE JsObj(Spread(Prop(tagField, JsStr(variant)), Prop(WRAPPED_VALUE_KEY, arg)))

\* A dispatch that hands every handler the value as it is.
CaseArgValueNoUnwrap(value) == value

\* The function (arg?) => { ... } that constructorOf(variant, tag) returns.
VariantConstructor(variant, tagField) ==
    [kind |-> "function", name |-> "constructorOf", variant |-> variant,
     tagField |-> tagField]

\* A loop whose constructors share the loop variable: each entry is the
\* constructor of the last name of the list.
constructorsLoopShared(acc, variants, tagField) ==
    IF Len(variants) = 0 THEN acc
    ELSE Spread(acc, [n \in {variants[i] : i \in 1..Len(variants)} |->
                         VariantConstructor(variants[Len(variants)], tagField)])

\* for (const variant of variants) ctors[variant] = constructorOf(variant, tag)
RECURSIVE constructorsLoop(_, _, _)
constructorsLoop(acc, variants, tagField) ==
    IF Len(variants) = 0 THEN acc
    ELSE constructorsLoop(
             Spread(acc, Prop(Head(variants), VariantConstructor(Head(variants), tagField))),
             Tail(variants), tagField)

\* A generation that skips the names the data type does not declare.
constructorsGetDeclaredOnly(variants, tagField) ==
    JsObj(constructorsLoop(NoFields,
                           SelectSeq(variants, LAMBDA n : n \in {"Nil", "Num", "toString"}),
                           tagField))

\* constructors(tag).get(...variants)
constructorsGet(variants, tagField) == JsObj(constructorsLoop(NoFields, variants, tagField))

\* constructors(tag).getOne(variant)
constructorsGetOne(variant, tagField) == VariantConstructor(variant, tagField)

(***************************************************************************)
(* Object identity.  An object or an array lives at an address of the      *)
(* heap; a tagged value holds an array payload by reference and the        *)
(* fields of a record payload by value (the fields are scalars here).      *)
(***************************************************************************)
ArrayRef(addr) == [kind |-> "array", addr |-> addr]

\* What a constructor sees of its argument: the record as it is now, the
\* array as a reference, a scalar as itself.
ArgView(h, arg, addr) ==
    IF addr = 0 THEN arg
    ELSE IF h[addr].kind = "array" THEN ArrayRef(addr)
    ELSE h[addr]

\* The content of an object, its array payloads read through the heap.
Content(h, obj) ==
    IF obj.kind # "object" THEN obj
    ELSE JsObj([k \in DOMAIN obj.fields |->
                  IF obj.fields[k].kind = "array" /\ "addr" \in DOMAIN obj.fields[k]
                  THEN h[obj.fields[k].addr]
                  ELSE obj.fields[k]])

\* An object literal evaluates to a new object.
NewObject(h, obj) == [heap |-> Append(h, obj), ref |-> Len(h) + 1]

\* A constructor that returns the one object it built before for an equal result.
constructorCallCached(h, c, arg, addr) ==
    LET obj == constructorOf(c.variant, c.tagField, ArgView(h, arg, addr))
        same == {a \in 1..Len(h) : a # addr /\ h[a] = obj}
    IN IF same # {} THEN [heap |-> h, ref |-> CHOOSE a \in same : TRUE]
       ELSE NewObject(h, obj)

\* A constructor that writes the discriminant into its record argument.
constructorCallInPlace(h, c, arg, addr) ==
    LET obj == constructorOf(c.variant, c.tagField, ArgView(h, arg, addr))
    IN IF addr # 0 /\ h[addr].kind = "object"
       THEN [heap |-> [h EXCEPT ![addr] = obj], ref |-> addr]
       ELSE NewObject(h, obj)

\* c(arg), for a constructor c = constructorOf(variant, tag)
constructorCall(h, c, arg, addr) ==
    NewObject(h, constructorOf(c.variant, c.tagField, ArgView(h, arg, addr)))

\* WRAPPED_VALUE_KEY in value ? value[WRAPPED_VALUE_KEY] : value
CaseArgValue(value) ==
    IF HasProperty(value, WRAPPED_VALUE_KEY) THEN Get(value, WRAPPED_VALUE_KEY) ELSE value

\* A dispatch that prefers the fallback to the handler of the tag.
matchFallbackFirst(value, caseMap, tagField) ==
    IF HasProperty(caseMap, "_")
    THEN Call(Get(caseMap, "_"), caseMap, <<CaseArgValue(value)>>)
    ELSE IF HasProperty(caseMap, JsToString(Get(value, tagField)))
    THEN Call(Get(caseMap, JsToString(Get(value, tagField))), Undefined, <<CaseArgValue(value)>>)
    ELSE Throw("Unhandled " \o tagField \o ": '" \o JsToString(Get(value, tagField)) \o "'")

match(value, caseMap, tagField) ==
    IF HasProperty(caseMap, JsToString(Get(value, tagField)))
    THEN LET handler == Get(caseMap, JsToString(Get(value, tagField)))
         IN Call(handler, Undefined, <<CaseArgValue(value)>>)
    ELSE IF HasProperty(caseMap, "_")
    THEN Call(Get(caseMap, "_"), caseMap, <<CaseArgValue(value)>>)
    ELSE Throw("Unhandled " \o tagField \o ": '" \o JsToString(Get(value, tagField)) \o "'")

Reverse(s) == [i \in 1..Len(s) |-> s[Len(s) + 1 - i]]

\* A key built from the tags in reverse argument order.
CompositeKeyReversed(values, tagField) ==
    JoinItems(Reverse([i \in 1..Len(values) |-> Get(values[i], tagField)]), " ")

\* values.map(v => v[tag]).join(' ')
CompositeKey(values, tagField) ==
    JoinItems([i \in 1..Len(values) |-> Get(values[i], tagField)], " ")

\* A dispatch without a fallback.
matchManyNoFallback(values, caseMap, tagField) ==
    LET key == JoinItems([i \in 1..Len(values) |-> Get(values[i], tagField)], " ")
        args == [i \in 1..Len(values) |-> CaseArgValue(values[i])]
    IN IF HasProperty(caseMap, key) THEN Call(Get(caseMap, key), caseMap, args)
       ELSE Throw("Unhandled " \o tagField \o ": '" \o key \o "'")

\* A dispatch that prefers the fallback to the handler of the key.
matchManyFallbackFirst(values, caseMap, tagField) ==
    LET key == JoinItems([i \in 1..Len(values) |-> Get(values[i], tagField)], " ")
        args == [i \in 1..Len(values) |-> CaseArgValue(values[i])]
    IN IF HasProperty(caseMap, "_") THEN Call(Get(caseMap, "_"), caseMap, args)
       ELSE IF HasProperty(caseMap, key) THEN Call(Get(caseMap, key), caseMap, args)
       ELSE Throw("Unhandled " \o tagField \o ": '" \o key \o "'")

\* An argument list in which only the first value is unwrapped.
CaseArgValuesFirstOnly(values) ==
    [i \in 1..Len(values) |-> IF i = 1 THEN CaseArgValue(values[i]) ELSE values[i]]

\* values.map(v => WRAPPED_VALUE_KEY in v ? v[WRAPPED_VALUE_KEY] : v)
CaseArgValues(values) == [i \in 1..Len(values) |-> CaseArgValue(values[i])]

matchMany(values, caseMap, tagField) ==
    LET key == CompositeKey(values, tagField)
        args == CaseArgValues(values)
    IN IF HasProperty(caseMap, key) THEN Call(Get(caseMap, key), caseMap, args)
       ELSE IF HasProperty(caseMap, "_") THEN Call(Get(caseMap, "_"), caseMap, args)
       ELSE Throw("Unhandled " \o tagField \o ": '" \o key \o "'")

(***************************************************************************)
(* The caller's inputs.                                                    *)
(***************************************************************************)
MaxTuple == 2

TagFields == {"variant", "type", WRAPPED_VALUE_KEY}

Tags == {"Nil", "Num", "toString"}

\* Arguments of a constructor call: none, scalars, null, an array, and field
\* records (empty, ordinary, one with a field named like the discriminant
\* field, one whose only field is named like the wrapped-value slot).
CtorArgs(tagField) ==
    {Undefined, JsNum(5), JsStr("x"), JsBool(TRUE), Null, JsArr(<<JsNum(1)>>),
     JsObj(NoFields), JsObj(Prop("head", JsNum(1))),
     JsObj(Prop(tagField, JsStr("Cons"))), JsObj(Prop(WRAPPED_VALUE_KEY, JsNum(7)))}

TupleArgs ==
    {Undefined, JsNum(5), JsArr(<<JsNum(1)>>), JsObj(Prop("head", JsNum(1))),
     JsObj(Prop(WRAPPED_VALUE_KEY, JsNum(5)))}

\* The tag names the data type of the session declares, and the names a
\* caller may ask a constructor for: the declared ones, one that is not
\* declared, and one that contains a space.
DeclaredTags == Tags

RequestNames == Tags \cup {"Cons", "Nil Num"}

CtorInputs(names, args) == {[variant |-> n, arg |-> a] : n \in names, a \in args}

\* The tag names of the calls, joined by one space, in call order.
RECURSIVE NamesKey(_)
NamesKey(ins) ==
    IF Len(ins) = 0 THEN ""
    ELSE IF Len(ins) = 1 THEN ins[1].variant
    ELSE ins[1].variant \o " " \o NamesKey(Tail(ins))

\* The keys a case mapping of the session may hold: the key of the tuple, the
\* key of the tuple in reverse order, the fallback, and an unrelated key.
CandidateKeys(ins) == {NamesKey(ins), NamesKey(Reverse(ins)), "_", "Cons"}

\* Each entry of a case mapping holds its own handler function.
CasesOver(keys) == JsObj([k \in keys |-> JsFn("handler of " \o k)])

\* The names of the constructors the session asks for, one per call.
RequestedNames(ins) == [i \in 1..Len(ins) |-> ins[i].variant]

HasIdentity(v) == v.kind \in {"object", "array"}

\* The address of the i-th argument, 0 for a scalar: the caller writes each
\* record or array argument as a literal of its own.
ArgAddr(ins, i) ==
    IF HasIdentity(ins[i].arg)
    THEN Cardinality({j \in 1..i : HasIdentity(ins[j].arg)})
    ELSE 0

\* The heap before the first constructor call: the arguments.
RECURSIVE ArgHeap(_)
ArgHeap(ins) ==
    IF Len(ins) = 0 THEN <<>>
    ELSE LET front == ArgHeap(SubSeq(ins, 1, Len(ins) - 1))
             last == ins[Len(ins)].arg
         IN IF HasIdentity(last) THEN Append(front, last) ELSE front

Init ==
    /\ tag \in TagFields
    /\ inputs \in {<<i>> : i \in CtorInputs(RequestNames, CtorArgs(tag))}
                  \cup UNION {[1..n -> CtorInputs(Tags, TupleArgs)] : n \in 0..MaxTuple}
    /\ cases \in {CasesOver(K) : K \in SUBSET CandidateKeys(inputs)}
    /\ vals = <<>>
    /\ pc = "start"
    /\ outcome = NoOutcome
    /\ ctors = Undefined
    /\ heap = ArgHeap(inputs)
    /\ valRefs = <<>>
    /\ touched = 0
    /\ lists = <<>>

\* const ctors = constructors(tag).get(...names)
Generate ==
    /\ pc = "start"
    /\ ctors' = constructorsGet(RequestedNames(inputs), tag)
    /\ pc' = "build"
    /\ UNCHANGED <<tag, inputs, cases, vals, outcome, heap, valRefs, touched, lists>>

\* const ctors = { [name]: constructors(tag).getOne(name) }
GenerateOne ==
    /\ pc = "start"
    /\ Len(inputs) = 1
    /\ ctors' = JsObj(Prop(inputs[1].variant, constructorsGetOne(inputs[1].variant, tag)))
    /\ pc' = "build"
    /\ UNCHANGED <<tag, inputs, cases, vals, outcome, heap, valRefs, touched, lists>>

\* const v = ctors[variant](arg)
Construct ==
    /\ pc = "build"
    /\ Len(vals) < Len(inputs)
    /\ LET i == Len(vals) + 1
           c == Get(ctors, inputs[i].variant)
       IN /\ c.kind = "function" /\ c.name = "constructorOf"
          /\ LET r == constructorCall(heap, c, inputs[i].arg, ArgAddr(inputs, i))
             IN /\ heap' = r.heap
                /\ valRefs' = Append(valRefs, r.ref)
                /\ vals' = Append(vals, Content(r.heap, r.heap[r.ref]))
    /\ UNCHANGED <<tag, inputs, cases, pc, outcome, ctors, touched, lists>>

\* match(v, cases, tag)
Match ==
    /\ pc = "build"
    /\ Len(inputs) = 1
    /\ Len(vals) = 1
    /\ outcome' = match(vals[1], cases, tag)
    /\ pc' = "match"
    /\ UNCHANGED <<tag, inputs, cases, vals, ctors, heap, valRefs, touched, lists>>

\* matchMany([v1, ..., vN], cases, tag)
MatchMany ==
    /\ pc = "build"
    /\ Len(vals) = Len(inputs)
    /\ outcome' = matchMany(vals, cases, tag)
    /\ pc' = "matchMany"
    /\ UNCHANGED <<tag, inputs, cases, vals, ctors, heap, valRefs, touched, lists>>

\* The caller's later change to one object: obj.head = 9, or arr[0] = 9.
Changed(obj) ==
    IF obj.kind = "array" THEN JsArr(<<JsNum(9)>> \o Tail(obj.items))
    ELSE JsObj(Spread(obj.fields, Prop("head", JsNum(9))))

Mutate ==
    /\ pc = "build"
    /\ Len(vals) = Len(inputs)
    /\ \E a \in 1..Len(heap) :
          /\ heap' = [heap EXCEPT ![a] = Changed(heap[a])]
          /\ touched' = a
    /\ pc' = "mutated"
    /\ UNCHANGED <<tag, inputs, cases, vals, outcome, ctors, valRefs, lists>>

Next == Generate \/ GenerateOne \/ Construct \/ Match \/ MatchMany \/ Mutate

Spec == Init /\ [][Next]_vars

(***************************************************************************)
(* The list example (src/examples/list.ts): lists built with Nil and Cons, *)
(* len by recursion through match, same by recursion through matchMany.    *)
(* The handlers of the example are interpreted: the dispatch says which    *)
(* handler is called and with what, and the handler's body is then         *)
(* evaluated.                                                              *)
(***************************************************************************)
MaxList == 2

Heads == {1, 2}

ListsUpTo(n) == UNION {[1..k -> Heads] : k \in 0..n}

\* const { Nil, Cons } = constructors().get('Nil', 'Cons')
ListCtors == constructorsGet(<<"Nil", "Cons">>, "variant")

\* c(arg) where the identity of the result does not matter
Apply(c, arg) == constructorOf(c.variant, c.tagField, arg)

\* Cons({ head: h1, tail: Cons({ ... tail: Nil({}) }) })
RECURSIVE ListValue(_)
ListValue(heads) ==
    IF Len(heads) = 0 THEN Apply(Get(ListCtors, "Nil"), JsObj(NoFields))
    ELSE Apply(Get(ListCtors, "Cons"),
               JsObj([head |-> JsNum(heads[1]), tail |-> ListValue(Tail(heads))]))

lenCases == CasesOver({"Nil", "Cons"})

sameCases == CasesOver({"Nil Nil", "Cons Cons", "_"})

\* const len = list => match(list, { Nil: () => 0, Cons: ({ tail }) => 1 + len(tail) })
RECURSIVE len(_)
len(list) ==
    LET d == match(list, lenCases, "variant")
    IN IF d.status # "return" THEN d
       ELSE IF d.calls[1].fn = lenCases.fields["Nil"]
       THEN [d EXCEPT !.value = JsNum(0)]
       ELSE LET rest == len(Get(d.calls[1].args[1], "tail"))
            IN IF rest.status # "return" THEN rest
               ELSE [d EXCEPT !.value = JsNum(1 + rest.value.num)]

\* const same = (a, b) => matchMany([a, b], { 'Nil Nil': () => true,
\*   'Cons Cons': (l, r) => l.head === r.head && same(l.tail, r.tail), _: () => false })
RECURSIVE same(_, _)
same(a, b) ==
    LET d == matchMany(<<a, b>>, sameCases, "variant")
    IN IF d.status # "return" THEN d
       ELSE IF d.calls[1].fn = sameCases.fields["Nil Nil"]
       THEN [d EXCEPT !.value = JsBool(TRUE)]
       ELSE IF d.calls[1].fn = sameCases.fields["Cons Cons"]
       THEN LET l == d.calls[1].args[1]
                r == d.calls[1].args[2]
            IN IF Get(l, "head") # Get(r, "head")
               THEN [d EXCEPT !.value = JsBool(FALSE)]
               ELSE LET rest == same(Get(l, "tail"), Get(r, "tail"))
                    IN IF rest.status # "return" THEN rest
                       ELSE [d EXCEPT !.value = rest.value]
       ELSE [d EXCEPT !.value = JsBool(FALSE)]

InitList ==
    /\ tag = "variant"
    /\ inputs = <<>>
    /\ cases = JsObj(NoFields)
    /\ vals = <<>>
    /\ pc = "lists"
    /\ outcome = NoOutcome
    /\ ctors = ListCtors
    /\ heap = <<>>
    /\ valRefs = <<>>
    /\ touched = 0
    /\ lists \in ListsUpTo(MaxList) \X ListsUpTo(MaxList)

\* const a = Cons({ ... }), b = Cons({ ... })
BuildLists ==
    /\ pc = "lists"
    /\ vals' = <<ListValue(lists[1]), ListValue(lists[2])>>
    /\ pc' = "built"
    /\ UNCHANGED <<tag, inputs, cases, outcome, ctors, heap, valRefs, touched, lists>>

\* len(a)
ListLen ==
    /\ pc = "built"
    /\ cases' = lenCases
    /\ outcome' = len(vals[1])
    /\ pc' = "len"
    /\ UNCHANGED <<tag, inputs, vals, ctors, heap, valRefs, touched, lists>>

\* same(a, b)
ListSame ==
    /\ pc = "built"
    /\ cases' = sameCases
    /\ outcome' = same(vals[1], vals[2])
    /\ pc' = "same"
    /\ UNCHANGED <<tag, inputs, vals, ctors, heap, valRefs, touched, lists>>

NextList == BuildLists \/ ListLen \/ ListSame

SpecList == InitList /\ [][NextList]_vars

(***************************************************************************)
(* Vocabulary of the properties.                                           *)
(***************************************************************************)

\* The entries the caller put in a mapping or a value: its own properties.
OwnKeys(obj) == DOMAIN obj.fields

\* A tagged value has a discriminant attribute that holds a string, its tag.
Tagged(v) == tag \in OwnKeys(v) /\ v.fields[tag].kind = "string"

TagName(v) == v.fields[tag].str

\* The tags of a tuple in argument order, separated by one space.
RECURSIVE TagsKey(_)
TagsKey(vs) ==
    IF Len(vs) = 0 THEN ""
    ELSE IF Len(vs) = 1 THEN TagName(vs[1])
    ELSE TagName(vs[1]) \o " " \o TagsKey(Tail(vs))

\* The payload a named handler is to receive for a value.
Payload(v) ==
    IF WRAPPED_VALUE_KEY \in OwnKeys(v) THEN v.fields[WRAPPED_VALUE_KEY] ELSE v

\* The one call of a handler a dispatch is to make.
OneCall(fn, args) == <<[fn |-> fn, args |-> args]>>

\* match, respectively matchMany, was called on tagged values.
Matched == pc = "match" /\ Tagged(vals[1])
MatchedMany == pc = "matchMany" /\ \A i \in 1..Len(vals) : Tagged(vals[i])

(***************************************************************************)
(* Single dispatch.                                                        *)
(***************************************************************************)

\* C1: when the value's tag is a named key of cases, or cases holds the
\* fallback key "_", match returns the result of the selected handler (the
\* named one, else the fallback) and does not raise the unhandled-variant error.
C1_MatchTotal ==
    (Matched /\ (TagName(vals[1]) \in OwnKeys(cases) \/ "_" \in OwnKeys(cases)))
    => LET selected == IF TagName(vals[1]) \in OwnKeys(cases)
                       THEN cases.fields[TagName(vals[1])]
                       ELSE cases.fields["_"]
       IN /\ outcome.status = "return"
          /\ Len(outcome.calls) = 1
          /\ outcome.calls[1].fn = selected
          /\ outcome.value = Ret(selected, outcome.calls[1].args)

\* C2: when the value's tag is no key of cases and cases has no "_" entry,
\* match raises the unhandled-variant error, which names the discriminant
\* field and the unmatched tag, and invokes no handler.
C2_MatchUnhandled ==
    (Matched /\ TagName(vals[1]) \notin OwnKeys(cases) /\ "_" \notin OwnKeys(cases))
    => /\ outcome.status = "throw"
       /\ outcome.calls = <<>>
       /\ outcome.message = "Unhandled " \o tag \o ": '" \o TagName(vals[1]) \o "'"

\* C3: when match selects a named handler, it calls that handler once, with
\* the content of the wrapped-value slot if the value has the slot, and with
\* the full tagged value (discriminant attribute included) otherwise.
C3_NamedHandlerArg ==
    (Matched /\ TagName(vals[1]) \in OwnKeys(cases))
    => /\ outcome.calls = OneCall(cases.fields[TagName(vals[1])], <<Payload(vals[1])>>)
       /\ (WRAPPED_VALUE_KEY \notin OwnKeys(vals[1])
              => /\ outcome.calls[1].args[1] = vals[1]
                 /\ tag \in OwnKeys(outcome.calls[1].args[1]))

\* Num(5) matched with a case Num: the handler receives 5, not a record.
C3_Witness ==
    /\ Matched
    /\ tag = "variant"
    /\ inputs = <<[variant |-> "Num", arg |-> JsNum(5)]>>
    /\ "Num" \in OwnKeys(cases)
    /\ outcome.calls = OneCall(JsFn("handler of Num"), <<JsNum(5)>>)

\* C4: when match falls back to "_", the fallback handler receives the full
\* tagged value, not unwrapped, whatever the payload shape.
C4_FallbackGetsFullValue ==
    (Matched /\ TagName(vals[1]) \notin OwnKeys(cases) /\ "_" \in OwnKeys(cases))
    => \A i \in 1..Len(outcome.calls) :
           outcome.calls[i].fn = cases.fields["_"] => outcome.calls[i].args = <<vals[1]>>

(***************************************************************************)
(* Multi dispatch.                                                         *)
(***************************************************************************)

\* C5: matchMany invokes the handler registered under the tags of the values
\* in argument order joined by one space; with tags A # B and cases holding
\* "A B", "B A" and "_", that is the handler of "A B" and neither of the others.
C5_KeyInArgumentOrder ==
    /\ (MatchedMany /\ TagsKey(vals) \in OwnKeys(cases))
       => /\ Len(outcome.calls) = 1
          /\ outcome.calls[1].fn = cases.fields[TagsKey(vals)]
    /\ (MatchedMany /\ Len(vals) = 2 /\ TagName(vals[1]) # TagName(vals[2]))
       => LET ab == TagName(vals[1]) \o " " \o TagName(vals[2])
              ba == TagName(vals[2]) \o " " \o TagName(vals[1])
          IN {ab, ba, "_"} \subseteq OwnKeys(cases)
             => /\ Len(outcome.calls) = 1
                /\ outcome.calls[1].fn = cases.fields[ab]
                /\ outcome.calls[1].fn # cases.fields[ba]
                /\ outcome.calls[1].fn # cases.fields["_"]

\* matchMany([Num(5), Nil()]) with cases "Num Nil", "Nil Num" and "_".
C5_Witness ==
    /\ MatchedMany
    /\ tag = "variant"
    /\ inputs = <<[variant |-> "Num", arg |-> JsNum(5)], [variant |-> "Nil", arg |-> Undefined]>>
    /\ {"Num Nil", "Nil Num", "_"} \subseteq OwnKeys(cases)
    /\ Len(outcome.calls) = 1
    /\ outcome.calls[1].fn = JsFn("handler of Num Nil")

\* C6: when the composite key is in cases, the handler is called with N
\* arguments for an N-tuple, the i-th being the payload of the i-th value:
\* the content of its wrapped-value slot if it has one, else the full value.
C6_PositionalPayloads ==
    (MatchedMany /\ TagsKey(vals) \in OwnKeys(cases))
    => /\ Len(outcome.calls) = 1
       /\ Len(outcome.calls[1].args) = Len(vals)
       /\ \A i \in 1..Len(vals) : outcome.calls[1].args[i] = Payload(vals[i])

\* A tuple mixing a wrapped scalar and a field record: the handler receives
\* the scalar first and the record second.
C6_Witness ==
    /\ MatchedMany
    /\ tag = "variant"
    /\ inputs = <<[variant |-> "Num", arg |-> JsNum(5)],
                  [variant |-> "Nil", arg |-> JsObj(Prop("head", JsNum(1)))]>>
    /\ "Num Nil" \in OwnKeys(cases)
    /\ Len(outcome.calls) = 1
    /\ outcome.calls[1].args = <<JsNum(5), vals[2]>>
    /\ OwnKeys(vals[2]) = {"variant", "head"}

\* C7: when matchMany falls back to "_", the fallback handler receives the
\* original tagged values of the tuple, in order and not unwrapped.
C7_FallbackGetsOriginals ==
    (MatchedMany /\ TagsKey(vals) \notin OwnKeys(cases) /\ "_" \in OwnKeys(cases))
    => \A i \in 1..Len(outcome.calls) :
           outcome.calls[i].fn = cases.fields["_"] => outcome.calls[i].args = vals

\* C8: when the composite key is no key of cases and cases has no "_" entry,
\* matchMany raises the unhandled-variant error, which names the composite
\* key, and invokes no handler.
C8_ManyUnhandled ==
    (MatchedMany /\ TagsKey(vals) \notin OwnKeys(cases) /\ "_" \notin OwnKeys(cases))
    => /\ outcome.status = "throw"
       /\ outcome.calls = <<>>
       /\ outcome.message = "Unhandled " \o tag \o ": '" \o TagsKey(vals) \o "'"

(***************************************************************************)
(* Constructors.                                                           *)
(***************************************************************************)

\* C9: the constructor of tag name n and discriminant field t returns, without
\* an argument, the value with only t = n; for a non-array object argument,
\* the value with t = n plus every own field of the argument; for any other
\* argument, the value with t = n plus the argument in the wrapped-value slot,
\* and nothing else.
C9_ConstructorShapes ==
    \A i \in 1..Len(vals) :
        LET n == inputs[i].variant
            a == inputs[i].arg
            v == vals[i]
        IN /\ v.kind = "object"
           /\ v.fields[tag] = JsStr(n)
           /\ a = Undefined => OwnKeys(v) = {tag}
           /\ a.kind = "object"
                => /\ OwnKeys(v) = {tag} \cup OwnKeys(a)
                   /\ \A k \in OwnKeys(a) : v.fields[k] = a.fields[k]
           /\ a.kind \notin {"undefined", "object"}
                => /\ OwnKeys(v) = {tag, WRAPPED_VALUE_KEY}
                   /\ v.fields[WRAPPED_VALUE_KEY] = a

\* C10: every value a constructor of tag name n and discriminant field t
\* returns has its attribute t equal to n, whatever the argument.
C10_DiscriminantIsTagName ==
    \A i \in 1..Len(vals) : Get(vals[i], tag) = JsStr(inputs[i].variant)

\* C11: a value built from a wrapped (non-record) payload differs from every
\* value of the same tag built from a field record, also from one built from
\* a record whose only field is named like the wrapped-value slot; and match
\* hands such a record to its named handler whole, not unwrapped.
C11_WrappedDistinctFromRecord ==
    /\ \A i, j \in 1..Len(vals) :
           (/\ inputs[i].variant = inputs[j].variant
            /\ inputs[i].arg.kind \notin {"undefined", "object"}
            /\ inputs[j].arg.kind = "object")
           => vals[i] # vals[j]
    /\ (Matched /\ inputs[1].arg.kind = "object" /\ TagName(vals[1]) \in OwnKeys(cases))
       => outcome.calls = OneCall(cases.fields[TagName(vals[1])], <<vals[1]>>)

(***************************************************************************)
(* Constructor generation.                                                 *)
(***************************************************************************)

\* The constructors have been asked for.
Generated == pc \in {"build", "match", "matchMany", "mutated"}

\* The requested names that the data type does not declare.
UndeclaredRequested ==
    {inputs[i].variant : i \in 1..Len(inputs)} \ DeclaredTags

InvalidConstructorRequest == [kind |-> "error", name |-> "InvalidConstructorRequest"]

\* C12: asking for the constructor of a tag name outside the declared tag set
\* fails at request time with InvalidConstructorRequest, and no constructor
\* for that name is returned.
C12_UndeclaredRejected ==
    (Generated /\ UndeclaredRequested # {})
    => /\ ctors = InvalidConstructorRequest
       /\ \A n \in UndeclaredRequested : n \notin OwnKeys(ctors)

\* C12 as amended: at run time the request raises no error; it returns a
\* constructor for a name outside the declared tag set as for any other name,
\* and that constructor builds values.
C12_UndeclaredAccepted ==
    (Generated /\ UndeclaredRequested # {})
    => /\ ctors.kind = "object"
       /\ \A n \in UndeclaredRequested :
              /\ n \in OwnKeys(ctors)
              /\ ctors.fields[n].kind = "function"
       /\ \A i \in 1..Len(vals) : vals[i].kind = "object" /\ tag \in OwnKeys(vals[i])

\* The undeclared name Cons is requested and its constructor builds a value.
C12_Witness ==
    /\ Generated
    /\ tag = "variant"
    /\ inputs = <<[variant |-> "Cons", arg |-> Undefined]>>
    /\ "Cons" \in OwnKeys(ctors)
    /\ vals = <<JsObj(Prop("variant", JsStr("Cons")))>>

(***************************************************************************)
(* Identity of the constructed values.                                     *)
(***************************************************************************)

\* The i-th constructed value as it reads now; vals[i] is what it read when
\* it was constructed.
Now(i) == Content(heap, heap[valRefs[i]])

\* The i-th and the j-th call are two calls of the same constructor with
\* structurally equal arguments.
SameCall(i, j) == i # j /\ inputs[i] = inputs[j]

\* The two values of such a pair are equal, and are objects of their own.
FreshPair(i, j) ==
    /\ vals[i] = vals[j]
    /\ valRefs[i] # valRefs[j]
    /\ valRefs[i] \notin {ArgAddr(inputs, i), ArgAddr(inputs, j)}

\* C13: two calls of the same constructor with structurally equal arguments
\* return equal values that are independent objects, neither the other nor the
\* argument, so a later change to one of them or to the argument is not
\* visible in the other.
C13_IndependentValues ==
    \A i, j \in 1..Len(vals) :
        SameCall(i, j)
        => /\ FreshPair(i, j)
           /\ (pc = "mutated" /\ touched # valRefs[j]) => Now(j) = vals[j]

\* C13 as amended: the values are equal and independent objects, and a later
\* change to one of them or to a record argument is not visible in the other;
\* an array argument is held by reference, so a change to its elements is
\* visible through the value that wraps it.
C13_IndependentUpToSharedArray ==
    \A i, j \in 1..Len(vals) :
        SameCall(i, j)
        => /\ FreshPair(i, j)
           /\ (pc = "mutated" /\ touched # valRefs[j])
              => IF touched = ArgAddr(inputs, j) /\ inputs[j].arg.kind = "array"
                 THEN /\ Now(j).fields[WRAPPED_VALUE_KEY] = heap[touched]
                      /\ Now(j) # vals[j]
                 ELSE Now(j) = vals[j]

\* Two values built from equal records; the first has been changed since and
\* the second reads as it did.
C13_Witness ==
    /\ pc = "mutated"
    /\ Len(vals) = 2
    /\ SameCall(1, 2)
    /\ inputs[1].arg = JsObj(Prop("head", JsNum(1)))
    /\ touched = valRefs[1]
    /\ Now(1) # vals[1]
    /\ Now(2) = vals[2]

(***************************************************************************)
(* The list example.                                                       *)
(***************************************************************************)

\* C14: for every list built with Cons and Nil, len returns the number of Cons
\* nodes, and same(a, b) returns true exactly when a and b have the same
\* length and pairwise equal heads; len of a two-node list is 2 and
\* same(list, Nil) is false for a non-empty list.
C14_LenAndSame ==
    /\ pc = "len"
       => /\ outcome.status = "return"
          /\ outcome.value = JsNum(Len(lists[1]))
    /\ pc = "same"
       => /\ outcome.status = "return"
          /\ outcome.value = JsBool(/\ Len(lists[1]) = Len(lists[2])
                                    /\ \A k \in 1..Len(lists[1]) : lists[1][k] = lists[2][k])

\* same(Cons(1, Cons(2, Nil)), Cons(1, Cons(2, Nil))) has returned true.
C14_Witness ==
    /\ pc = "same"
    /\ lists = <<(<<1, 2>>), (<<1, 2>>)>>
    /\ Get(Get(vals[1], "tail"), "head") = JsNum(2)
    /\ outcome.value = JsBool(TRUE)

(***************************************************************************)
(* Frame.                                                                  *)
(***************************************************************************)

\* C15: match, matchMany and the constructors leave their inputs unchanged:
\* over every call, returning or raising, each object that existed before the
\* call (the constructor arguments and the tagged values), the values built
\* before and the case mapping are what they were before the call.
C15_InputsUnchanged ==
    [][pc' # "mutated"
       => /\ cases' = cases
          /\ inputs' = inputs
          /\ Len(heap') >= Len(heap)
          /\ \A a \in 1..Len(heap) : heap'[a] = heap[a]
          /\ Len(vals') >= Len(vals)
          /\ \A i \in 1..Len(vals) : vals'[i] = vals[i] /\ valRefs'[i] = valRefs[i]]_vars

\* A value built from a record argument has been matched and the call has
\* raised; the argument and the value read as before.
C15_Witness ==
    /\ pc = "match"
    /\ outcome.status = "throw"
    /\ inputs[1].arg = JsObj(Prop("head", JsNum(1)))
    /\ heap[ArgAddr(inputs, 1)] = inputs[1].arg
    /\ Now(1) = vals[1]

(***************************************************************************)
(* The generated constructors.                                             *)
(***************************************************************************)

\* C16: generation returns a mapping whose keys are exactly the requested
\* names, a name listed twice giving one entry; the entry under n is the
\* constructor of n for the discriminant field of the generation, the same
\* whether it comes from get or from getOne, and it builds values tagged n.
C16_GeneratedConstructors ==
    Generated
    => /\ OwnKeys(ctors) = {inputs[i].variant : i \in 1..Len(inputs)}
       /\ \A n \in OwnKeys(ctors) : ctors.fields[n] = VariantConstructor(n, tag)
       /\ \A i \in 1..Len(vals) :
              /\ vals[i].kind = "object"
              /\ Get(vals[i], tag) = JsStr(inputs[i].variant)

(***************************************************************************)
(* Round trip.                                                             *)
(***************************************************************************)

\* C17: for every single argument x that is not a field record (a number, a
\* string, a boolean, an array, null, an explicitly passed undefined), the
\* value the constructor of n builds from x, matched with a case n, hands x
\* to that handler, so a handler that returns its argument gives back x.
C17_WrappedRoundTrip ==
    (/\ pc = "match"
     /\ inputs[1].arg.kind # "object"
     /\ inputs[1].variant \in OwnKeys(cases))
    => outcome.calls = OneCall(cases.fields[inputs[1].variant], <<inputs[1].arg>>)

(***************************************************************************)
(* The composite key.                                                      *)
(***************************************************************************)

\* The tag sequences of up to MaxTuple positions over a set of names, and the
\* bare values that carry such a sequence.
TagSequences(names) == UNION {[1..n -> names] : n \in 0..MaxTuple}

BareValues(s) == [i \in 1..Len(s) |-> JsObj(Prop(tag, JsStr(s[i])))]

TagsOf(vs) == [i \in 1..Len(vs) |-> TagName(vs[i])]

\* C18: the composite key is injective on tag sequences: a tuple whose tag
\* sequence differs from that of the dispatched tuple, in some position or in
\* length, has a different composite key, also when a tag name contains a
\* space.
C18_KeyInjective ==
    MatchedMany
    => \A s \in TagSequences(RequestNames) :
           s # TagsOf(vals) => CompositeKey(BareValues(s), tag) # CompositeKey(vals, tag)

(***************************************************************************)
(* The empty tuple.                                                        *)
(***************************************************************************)

\* C19: matchMany on an empty tuple uses the empty string as composite key:
\* it invokes the handler under '' with no arguments if cases has that key,
\* otherwise the '_' handler with no arguments if present, otherwise it
\* raises the unhandled-variant error.
C19_EmptyTuple ==
    (pc = "matchMany" /\ Len(vals) = 0)
    => IF "" \in OwnKeys(cases)
       THEN /\ outcome.status = "return"
            /\ outcome.calls = OneCall(cases.fields[""], <<>>)
       ELSE IF "_" \in OwnKeys(cases)
       THEN /\ outcome.status = "return"
            /\ outcome.calls = OneCall(cases.fields["_"], <<>>)
       ELSE outcome = Throw("Unhandled " \o tag \o ": ''")

\* An empty tuple has been dispatched to the handler under '', cases holding
\* a fallback as well.
C19_Witness ==
    /\ pc = "matchMany"
    /\ Len(vals) = 0
    /\ OwnKeys(cases) = {"", "_"}
    /\ outcome.calls = OneCall(cases.fields[""], <<>>)

(***************************************************************************)
(* One handler per call.                                                   *)
(***************************************************************************)

\* The key a dispatch on tagged values looks up.
DispatchKey == IF pc = "match" THEN TagName(vals[1]) ELSE TagsKey(vals)

\* C20: every call of match or matchMany invokes at most one handler, once;
\* when both the entry of the key and the '_' entry are present only the
\* former is invoked; when the call raises the unhandled-variant error no
\* handler has been invoked; and the result of the call is the return value
\* of the invoked handler.
C20_OneHandler ==
    (Matched \/ MatchedMany)
    => /\ Len(outcome.calls) <= 1
       /\ outcome.status = "throw" => outcome.calls = <<>>
       /\ outcome.status = "return"
          => /\ Len(outcome.calls) = 1
             /\ \A k \in OwnKeys(cases) :
                    outcome.calls[1].fn = cases.fields[k]
                    => outcome.value = Ret(cases.fields[k], outcome.calls[1].args)
       /\ ({DispatchKey, "_"} \subseteq OwnKeys(cases) /\ DispatchKey # "_")
          => /\ Len(outcome.calls) = 1
             /\ outcome.calls[1].fn = cases.fields[DispatchKey]
             /\ outcome.calls[1].fn # cases.fields["_"]

\* A value has been matched with a case mapping that holds both the entry of
\* its tag and the fallback, and the entry of the tag was invoked.
C20_Witness ==
    /\ Matched
    /\ TagName(vals[1]) = "Num"
    /\ {"Num", "_"} \subseteq OwnKeys(cases)
    /\ outcome.status = "return"
    /\ outcome.calls[1].fn = cases.fields["Num"]

(***************************************************************************)
(* The discriminant field name.                                            *)
(***************************************************************************)

\* What the same constructor call and the same match give with the default
\* discriminant field name.
DefaultValue == constructorOf(inputs[1].variant, "variant", inputs[1].arg)

DefaultOutcome == match(DefaultValue, cases, "variant")

\* C21: for every discriminant field name t, a value built by the constructor
\* of n for t, matched with a case mapping that has an entry n, selects the
\* handler of n and hands it the same argument as with the field name
\* 'variant': the unwrapped payload, or the whole value.
C21_TagFieldHonoured ==
    (pc = "match" /\ inputs[1].variant \in OwnKeys(cases))
    => /\ outcome.status = "return"
       /\ outcome.calls[1].fn = cases.fields[inputs[1].variant]
       /\ DefaultOutcome.status = "return"
       /\ outcome.calls[1].args =
              IF DefaultOutcome.calls[1].args = <<DefaultValue>>
              THEN <<vals[1]>>
              ELSE DefaultOutcome.calls[1].args

(***************************************************************************)
(* Inherited properties of the case mapping.                               *)
(***************************************************************************)

\* C22: match and matchMany select a handler only among the entries the
\* caller put in the case mapping: a tag or composite key that names no entry
\* of cases but a property the mapping inherits (toString) is unmatched, so
\* the fallback is used if present and otherwise the unhandled-variant error
\* is raised.
C22_OwnEntriesOnly ==
    ((Matched \/ MatchedMany)
     /\ DispatchKey \notin OwnKeys(cases)
     /\ DispatchKey \in DOMAIN ObjectPrototype)
    => IF "_" \in OwnKeys(cases)
       THEN /\ outcome.status = "return"
            /\ outcome.calls[1].fn = cases.fields["_"]
       ELSE /\ outcome.status = "throw"
            /\ outcome.calls = <<>>
            /\ outcome.message = "Unhandled " \o tag \o ": '" \o DispatchKey \o "'"

(***************************************************************************)
(* No state between calls.                                                 *)
(***************************************************************************)

\* The value the i-th constructor call gives in a session of its own: its
\* constructor generated alone, and no call made before it.
SoloValue(i) ==
    LET only == <<inputs[i]>>
        r == constructorCall(ArgHeap(only), constructorsGetOne(inputs[i].variant, tag),
                             inputs[i].arg, ArgAddr(only, 1))
    IN Content(r.heap, r.heap[r.ref])

SoloValues == [i \in 1..Len(vals) |-> SoloValue(i)]

====
